---- MODULE Spec2Model ----
(***************************************************************************)
(* A model of ldap_auth_provider.py (matrix-synapse-ldap3): the password   *)
(* provider that checks credentials against an LDAP directory and          *)
(* reconciles the directory identity with a local Synapse account.         *)
(*                                                                         *)
(* Strings are sequences of one-character strings, so that formatting,     *)
(* splitting and lower-casing are computed and not assumed.  Optional[str] *)
(* values use NoneV for None.  Every "await" of the source is a step of    *)
(* its own: that is where Twisted may run another attempt, and where the   *)
(* directory may change.                                                   *)
(***************************************************************************)
EXTENDS Integers, Sequences, FiniteSets, TLC

VARIABLES
    ldap_mode,              \* config.mode: "simple" | "search"
    ldap_bind_dn,           \* config.bind_dn (NoDn: None, anonymous bind)
    ldap_active_directory,  \* config.active_directory
    ldap_default_domain,    \* config.default_domain (NoneV: not configured)
    user_mapping,           \* config.user_mapping
    ldap_root_domain,       \* the root domain cache of the provider instance
    epoch,                  \* ghost: how many times the template was changed
    root_dse,               \* the directory: RootDSE's rootDomainNamingContext
    accounts,               \* the account registry: registered localparts
    external_ids,           \* user_external_ids rows <<external_id, user_id>>
    pc,                     \* per attempt: where it stands
    loc,                    \* per attempt: arguments and local variables
    conns,                  \* per attempt: the sessions it holds bound
    log,                    \* ghost, per attempt: directory/store operations
    result,                 \* per attempt: what the call returned or raised
    resolved,               \* ghost: successful check_auth results
    history,                \* ghost: whether resolved is being kept
    attempts                \* ghost: calls started so far

vars == << ldap_mode, ldap_bind_dn, ldap_active_directory, ldap_default_domain,
           user_mapping, ldap_root_domain, epoch, root_dse, accounts,
           external_ids, pc, loc, conns, log, result, resolved, history,
           attempts >>

-----------------------------------------------------------------------------
(* Bounds *)

\* How many times the mapping template is replaced (the provider restarts),
\* and how many calls of the entry points are started.
MaxTemplateChanges == 1
MaxAttempts == 2

-----------------------------------------------------------------------------
(* Strings *)

NoneV == << "None" >>
Empty == << >>

RECURSIVE Contains(_, _)
Contains(s, c) ==
    IF s = << >> THEN FALSE
    ELSE IF Head(s) = c THEN TRUE ELSE Contains(Tail(s), c)

\* Index of the first / last occurrence of character c in s (0: none).
RECURSIVE FirstIndex(_, _, _)
FirstIndex(s, c, i) ==
    IF i > Len(s) THEN 0
    ELSE IF s[i] = c THEN i ELSE FirstIndex(s, c, i + 1)

RECURSIVE LastIndex(_, _, _)
LastIndex(s, c, i) ==
    IF i < 1 THEN 0
    ELSE IF s[i] = c THEN i ELSE LastIndex(s, c, i - 1)

StartsWith(s, p) == Len(s) >= Len(p) /\ SubSeq(s, 1, Len(p)) = p
EndsWith(s, p) == Len(s) >= Len(p) /\ SubSeq(s, Len(s) - Len(p) + 1, Len(s)) = p

\* str.lower()
LowerChar(c) ==
    CASE c = "B" -> "b"
      [] c = "D" -> "d"
      [] c = "N" -> "n"
      [] c = "R" -> "r"
      [] c = "U" -> "u"
      [] OTHER -> c

Lower(s) == [i \in 1..Len(s) |-> LowerChar(s[i])]

\* s.split(c, 1)[0] and s.rsplit(c, 1): the parts around one separator.
SplitFirstLeft(s, c) == SubSeq(s, 1, FirstIndex(s, c, 1) - 1)
RSplitLeft(s, c) == SubSeq(s, 1, LastIndex(s, c, Len(s)) - 1)
RSplitRight(s, c) == SubSeq(s, LastIndex(s, c, Len(s)) + 1, Len(s))

\* s.split(c): every part.
RECURSIVE Split(_, _)
Split(s, c) ==
    LET i == FirstIndex(s, c, 1)
    IN  IF i = 0 THEN << s >>
        ELSE << SubSeq(s, 1, i - 1) >> \o Split(SubSeq(s, i + 1, Len(s)), c)

\* sep.join(parts)
RECURSIVE Join(_, _)
Join(parts, sep) ==
    IF parts = << >> THEN << >>
    ELSE IF Len(parts) = 1 THEN parts[1]
    ELSE parts[1] \o sep \o Join(Tail(parts), sep)

-----------------------------------------------------------------------------
(* The values the model draws from *)

Procs == {1, 2}

Slash == << "/" >>
At == << "@" >>

\* The homeserver name, and the domain the directory's users live in.
ServerName == << "h" >>
DirDomain == << "d", ".", "r" >>

\* RootDSE's rootDomainNamingContext[0], "DC=r".
RootDomainNamingContext == << "D", "C", "=", "r" >>

\* The password every directory entry has, and a wrong one.
GoodPassword == << "p" >>
BadPassword == << "w" >>
Passwords == {Empty, GoodPassword, BadPassword}

\* What callers type as the username; "h:1" is a server name with a port.
Usernames ==
    { << "b" >>, << "B" >>, << "u", "b" >>, << "@", "b", ":", "h" >>,
      << "d", "\\", "b" >>, << "b", "/", "d", ".", "r" >>,
      << "@", "b", ":", "h", ":", "1" >> }

Mediums == {"email", "msisdn"}
Addresses == {"m1", "m2"}

\* user_mapping as __init__ receives it: None; a dictionary whose template
\* maps nothing (no localpart_template, or one with the placeholder that
\* str.format rejects, as it names a second field); the template
\* "u{localpart}".
NoMapping == [kind |-> "none", pre |-> Empty, suf |-> Empty]
BadTemplate == [kind |-> "inert", pre |-> Empty, suf |-> Empty]
TemplateU == [kind |-> "tpl", pre |-> << "u" >>, suf |-> Empty]
Mappings == {NoMapping, BadTemplate, TemplateU}

\* The service account of search mode.
ServiceDn == [rdn |-> << "s", "v", "c" >>, ou |-> "service"]
NoDn == [rdn |-> Empty, ou |-> "none"]
ServicePassword == << "k" >>

\* config.bind_password: set exactly when bind_dn is (parse_config, 619-637).
ldap_bind_password == IF ldap_bind_dn = NoDn THEN NoneV ELSE ServicePassword

\* The entries the directory may hold.  name is the login; e3 is a second
\* entry with the login of e1, in another subtree and with the same mail.
\* Which of them exist is the directory's to say each time it is asked
\* (entries come and go between any two operations of an attempt).
Entries ==
    { [id |-> "e1", name |-> << "b" >>, ou |-> "base", mail |-> "m1"],
      [id |-> "e2", name |-> << "u", "b" >>, ou |-> "base", mail |-> "m2"],
      [id |-> "e3", name |-> << "b" >>, ou |-> "other", mail |-> "m1"] }

\* The value of the configured uid attribute of an entry: the login, or the
\* userPrincipalName in an Active Directory.
UidOf(e) ==
    IF ldap_active_directory THEN e.name \o At \o DirDomain ELSE e.name

DnOf(e) == [rdn |-> UidOf(e), ou |-> e.ou]

-----------------------------------------------------------------------------
(* The account registry and the identity-record store (Synapse's ModuleApi) *)

get_qualified_user_id(localpart) ==
    IF StartsWith(localpart, At) THEN localpart
    ELSE At \o localpart \o << ":" >> \o ServerName

\* The canonical id of the account with this id (case-insensitively), or None.
check_user_exists(user_id) ==
    IF \E a \in accounts : Lower(a) = Lower(user_id)
    THEN CHOOSE a \in accounts : Lower(a) = Lower(user_id)
    ELSE NoneV

\* store.get_external_ids_by_user(user_id), the "ldap_original" rows only.
get_external_ids_by_user(user_id) == {r \in external_ids : r[2] = user_id}

-----------------------------------------------------------------------------
(* IdentityMapper *)

\* str.format renders None as "None".
Str(v) == IF v = NoneV THEN << "N", "o", "n", "e" >> ELSE v

_apply_user_mapping(localpart) ==
    IF user_mapping.kind = "none" THEN localpart
    ELSE IF user_mapping.kind = "inert" THEN localpart
    ELSE user_mapping.pre \o Str(localpart) \o user_mapping.suf

\* The values _get_original_localpart may return: the external id of the
\* first "ldap_original" row of the account, None without account or row.
_get_original_localpart(mapped_localpart) ==
    LET user_id == get_qualified_user_id(mapped_localpart)
        rows == get_external_ids_by_user(user_id)
    IN  IF check_user_exists(user_id) = NoneV THEN {NoneV}
        ELSE IF rows = {} THEN {NoneV}
        ELSE {r[1] : r \in rows}

_reverse_user_mapping(mapped_localpart) ==
    IF user_mapping.kind = "none" THEN {mapped_localpart}
    ELSE { IF o # NoneV /\ o # Empty THEN o ELSE mapped_localpart :
             o \in _get_original_localpart(mapped_localpart) }

\* The user_id of the row with this external id, or None.
_find_user_by_original_localpart(original_localpart) ==
    LET rows == {r \in external_ids : r[1] = original_localpart}
    IN  IF rows = {} THEN {NoneV} ELSE {r[2] : r \in rows}

-----------------------------------------------------------------------------
(* The state of one attempt *)

cfgv == << ldap_mode, ldap_bind_dn, ldap_active_directory, ldap_default_domain,
           user_mapping, epoch, history >>

\* A call of an entry point starts.
Start == attempts < MaxAttempts /\ attempts' = attempts + 1
storev == << accounts, external_ids >>
dirv == << root_dse >>

\* A session is named by the call that bound it; NoConn is conn = None.
NoConn == << "none", "none" >>

NoLocals ==
    [ op |-> "none", username |-> Empty, password |-> Empty,
      medium |-> "none", address |-> "none",
      original_username |-> Empty, uid_value |-> Empty,
      default_display_name |-> Empty, localpart |-> Empty,
      mapped_localpart |-> Empty, original_localpart |-> Empty,
      reg_localpart |-> Empty,
      phase |-> "none", user_dn |-> NoDn, conn |-> NoConn,
      response |-> "none", search_ret |-> << >>, user_id |-> Empty,
      upn |-> << >>, typed |-> Empty, config |-> << >> ]

Pending == [kind |-> "pending", val |-> Empty]
ReturnedNone == [kind |-> "none", val |-> Empty]
Returned(v) == [kind |-> "value", val |-> v]
Raised(e) == [kind |-> "raise", val |-> << e >>]

\* One entry of an attempt's log of directory and store operations: a bind
\* (as whom, with which password, and the answer), a search (for which
\* attribute, the entry it found if it found one, and "one", "none" or
\* "many"), an unbind, a call of the store.
Ev(op, who, dn, pw, out) ==
    [op |-> op, who |-> who, dn |-> dn, pw |-> pw, out |-> out]

DirectoryOps == {"bind", "search", "unbind"}

\* The call ends: with a value, with None, or by raising.
Finish(p, r) ==
    /\ pc' = [pc EXCEPT ![p] = "done"]
    /\ result' = [result EXCEPT ![p] = r]

Goto(p, label) ==
    /\ pc' = [pc EXCEPT ![p] = label]
    /\ UNCHANGED result

Logged(p, e) == log' = [log EXCEPT ![p] = Append(@, e)]

-----------------------------------------------------------------------------
(* The directory (ldap3) *)

\* What Connection.bind can answer: "ok", "refused", or an LDAPException.
\* An anonymous bind and the service account's bind are the server's to
\* accept; a bind with an empty password is an unauthenticated bind
\* (RFC 4513, 5.1.2), which a server may accept or refuse and ldap3 may
\* reject; any other bind succeeds only as an entry that exists, with that
\* entry's password.  The directory compares names without regard to case
\* (uid and userPrincipalName are caseIgnoreMatch attributes).
BindOutcomes(bind_dn, password, auth_type) ==
    IF auth_type = "ANONYMOUS" \/ bind_dn = ServiceDn \/ password = Empty
    THEN {"ok", "refused", "error"}
    ELSE IF \E e \in Entries : /\ Lower(DnOf(e).rdn) = Lower(bind_dn.rdn)
                                /\ DnOf(e).ou = bind_dn.ou
                                /\ password = GoodPassword
         THEN {"ok", "refused", "error"}
         ELSE {"refused", "error"}

\* The sets of entries a search for attribute = value may return.
SearchResponses(key, value) ==
    SUBSET {e \in Entries : IF key = "mail" THEN e.mail = value
                            ELSE Lower(UidOf(e)) = Lower(value)}

-----------------------------------------------------------------------------
(* UPNResolver *)

Truthy(v) == v # NoneV /\ v # Empty

\* A _map_login_to_upn that appends the root domain to every DOMAIN\login
\* domain, whether it ends with it or not.
UpnTuple_AlwaysSuffix(username, root_domain) ==
    LET lowered == Lower(username)
        login == IF Contains(username, "\\") THEN RSplitRight(lowered, "\\")
                 ELSE IF Contains(username, "/") THEN RSplitLeft(lowered, "/")
                 ELSE lowered
        given == IF Contains(username, "\\") THEN RSplitLeft(lowered, "\\")
                 ELSE IF Contains(username, "/") THEN RSplitRight(lowered, "/")
                 ELSE ldap_default_domain
        domain == IF Contains(username, "\\") /\ root_domain # Empty
                  THEN given \o << "." >> \o root_domain
                  ELSE given
        localpart == IF /\ Truthy(ldap_default_domain)
                        /\ domain = Lower(ldap_default_domain)
                     THEN login
                     ELSE login \o Slash \o domain
    IN  [login |-> login, domain |-> domain, localpart |-> localpart]

\* _map_login_to_upn once the root domain is known: (login, domain, localpart).
\* Called only when the username carries a separator or a default domain is
\* configured.
UpnTuple(username, root_domain) ==
    LET lowered == Lower(username)
        login == IF Contains(username, "\\") THEN RSplitRight(lowered, "\\")
                 ELSE IF Contains(username, "/") THEN RSplitLeft(lowered, "/")
                 ELSE lowered
        given == IF Contains(username, "\\") THEN RSplitLeft(lowered, "\\")
                 ELSE IF Contains(username, "/") THEN RSplitRight(lowered, "/")
                 ELSE ldap_default_domain
        domain == IF /\ Contains(username, "\\")
                     /\ root_domain # Empty
                     /\ ~EndsWith(given, root_domain)
                  THEN given \o << "." >> \o root_domain
                  ELSE given
        localpart == IF /\ Truthy(ldap_default_domain)
                        /\ domain = Lower(ldap_default_domain)
                     THEN login
                     ELSE login \o Slash \o domain
    IN  [login |-> login, domain |-> domain, localpart |-> localpart]

\* ".".join(dc.split("=")[1] for dc in context.split(",") if "=" in dc)
RECURSIVE DcValues(_)
DcValues(parts) ==
    IF parts = << >> THEN << >>
    ELSE IF Contains(Head(parts), "=")
         THEN << Split(Head(parts), "=")[2] >> \o DcValues(Tail(parts))
         ELSE DcValues(Tail(parts))

RootDomainOf(context) == Join(DcValues(Split(context, ",")), << "." >>)

\* check_auth with the UPN resolved: the bind or the search comes next.
AfterUpn(p, t) ==
    /\ loc' = [loc EXCEPT ![p].uid_value = t.login \o At \o t.domain,
                          ![p].default_display_name = t.login,
                          ![p].localpart = t.localpart,
                          ![p].phase = "first",
                          ![p].upn = << t.login, t.domain, t.localpart >>]
    /\ IF loc[p].op = "_map_login_to_upn"
       THEN Finish(p, Returned(<< t.login, t.domain, t.localpart >>))
       ELSE Goto(p, IF ldap_mode = "simple" THEN "simple_bind" ELSE "svc_bind")

-----------------------------------------------------------------------------
(* check_auth: from the call to the authentication *)

\* Lines 178-180 and the locals check_auth starts with: @user:domain is cut
\* down to its localpart, at the first ":".
CheckAuthLocals(username, password) ==
    [NoLocals EXCEPT !.op = "check_auth",
                     !.username =
                        IF StartsWith(username, At) /\ Contains(username, ":")
                        THEN Tail(SplitFirstLeft(username, ":"))
                        ELSE username,
                     !.password = password]

\* A check_auth without lines 175-176: an empty password goes on to the
\* directory like any other.
CheckAuth_NoEmptyCheck(p, username, password) ==
    /\ Start
    /\ pc[p] = "idle"
    /\ loc' = [loc EXCEPT ![p] =
                 [CheckAuthLocals(username, password) EXCEPT !.typed = username]]
    /\ Goto(p, "reverse")
    /\ UNCHANGED << cfgv, ldap_root_domain, dirv, storev, conns, log, resolved >>

\* A check_auth that cuts @user:domain at its last ":".
CheckAuth_SplitLast(p, username, password) ==
    /\ Start
    /\ pc[p] = "idle"
    /\ loc' = [loc EXCEPT ![p] =
                 [NoLocals EXCEPT !.op = "check_auth",
                     !.username =
                        IF StartsWith(username, At) /\ Contains(username, ":")
                        THEN Tail(RSplitLeft(username, ":"))
                        ELSE username,
                     !.password = password, !.typed = username]]
    /\ IF password = Empty THEN Finish(p, ReturnedNone) ELSE Goto(p, "reverse")
    /\ UNCHANGED << cfgv, ldap_root_domain, dirv, storev, conns, log, resolved >>

\* Lines 169-180: the empty password is refused at once; @user:domain is cut
\* down to its localpart.  ghost: typed is the name as the caller gave it,
\* kept until the attempt's next step.
CheckAuth(p, username, password) ==
    /\ Start
    /\ pc[p] = "idle"
    /\ loc' = [loc EXCEPT ![p] =
                 [CheckAuthLocals(username, password) EXCEPT !.typed = username]]
    /\ IF password = Empty THEN Finish(p, ReturnedNone) ELSE Goto(p, "reverse")
    /\ UNCHANGED << cfgv, ldap_root_domain, dirv, storev, conns, log, resolved >>

\* Lines 183-190: the typed name is taken back to the original localpart.
ReverseMapping(p) ==
    /\ UNCHANGED attempts
    /\ pc[p] = "reverse"
    /\ \E o \in _reverse_user_mapping(loc[p].username) :
         loc' = [loc EXCEPT ![p].original_username = o,
                            ![p].uid_value = o,
                            ![p].default_display_name = o,
                            ![p].localpart = o,
                            ![p].phase = "first",
                            ![p].typed = Empty]
    /\ IF user_mapping.kind = "none" THEN UNCHANGED log
       ELSE Logged(p, Ev("store", "get_original", NoDn, Empty, "ok"))
    /\ Goto(p, IF ldap_active_directory THEN "upn"
               ELSE IF ldap_mode = "simple" THEN "simple_bind" ELSE "svc_bind")
    /\ UNCHANGED << cfgv, ldap_root_domain, dirv, storev, conns, resolved >>

\* _map_login_to_upn(username) called by itself.
MapLoginToUpnCall(p, username) ==
    /\ Start
    /\ pc[p] = "idle"
    /\ ldap_active_directory
    /\ loc' = [loc EXCEPT ![p] =
                 [NoLocals EXCEPT !.op = "_map_login_to_upn",
                                  !.username = username]]
    /\ Goto(p, "upn")
    /\ UNCHANGED << cfgv, ldap_root_domain, dirv, storev, conns, log, resolved >>

\* A _map_login_to_upn that takes a bare login without a default domain as
\* it is, with the domain None, instead of raising.
MapLoginToUpn_NoRaise(p) ==
    /\ UNCHANGED attempts
    /\ pc[p] = "upn"
    /\ LET username == loc[p].username IN
       IF Contains(username, "\\") THEN
            IF ldap_root_domain # NoneV THEN
                /\ AfterUpn(p, UpnTuple(username, ldap_root_domain))
                /\ UNCHANGED ldap_root_domain
            ELSE IF ldap_mode # "search" THEN
                /\ ldap_root_domain' = Empty
                /\ AfterUpn(p, UpnTuple(username, Empty))
            ELSE
                /\ ldap_root_domain' = Empty
                /\ Goto(p, "root_bind")
                /\ UNCHANGED loc
       ELSE /\ AfterUpn(p, UpnTuple(username, Empty))
            /\ UNCHANGED ldap_root_domain
    /\ UNCHANGED << cfgv, dirv, storev, conns, log, resolved >>

\* A _map_login_to_upn whose root-domain discovery binds to the directory in
\* simple mode too (_fetch_root_domain without lines 707-709).
MapLoginToUpn_DiscoverInSimple(p) ==
    /\ UNCHANGED attempts
    /\ pc[p] = "upn"
    /\ LET username == loc[p].username IN
       IF Contains(username, "\\") THEN
            IF ldap_root_domain # NoneV THEN
                /\ AfterUpn(p, UpnTuple(username, ldap_root_domain))
                /\ UNCHANGED ldap_root_domain
            ELSE
                /\ ldap_root_domain' = Empty
                /\ Goto(p, "root_bind")
                /\ UNCHANGED loc
       ELSE IF ~Contains(username, "/") /\ ~Truthy(ldap_default_domain) THEN
            /\ Finish(p, IF loc[p].op = "_map_login_to_upn"
                         THEN Raised("ActiveDirectoryUPNException")
                         ELSE ReturnedNone)
            /\ UNCHANGED << loc, ldap_root_domain >>
       ELSE /\ AfterUpn(p, UpnTuple(username, Empty))
            /\ UNCHANGED ldap_root_domain
    /\ UNCHANGED << cfgv, dirv, storev, conns, log, resolved >>

\* Lines 192-198 and 940-965.  A DOMAIN\login name needs the root domain:
\* the cached one, or "" outside search mode, or the discovery's.
MapLoginToUpn(p) ==
    /\ UNCHANGED attempts
    /\ pc[p] = "upn"
    /\ LET username == loc[p].username IN
       IF Contains(username, "\\") THEN
            IF ldap_root_domain # NoneV THEN
                /\ AfterUpn(p, UpnTuple(username, ldap_root_domain))
                /\ UNCHANGED ldap_root_domain
            ELSE IF ldap_mode # "search" THEN
                /\ ldap_root_domain' = Empty
                /\ AfterUpn(p, UpnTuple(username, Empty))
            ELSE
                /\ ldap_root_domain' = Empty
                /\ Goto(p, "root_bind")
                /\ UNCHANGED loc
       ELSE IF ~Contains(username, "/") /\ ~Truthy(ldap_default_domain) THEN
            /\ Finish(p, IF loc[p].op = "_map_login_to_upn"
                         THEN Raised("ActiveDirectoryUPNException")
                         ELSE ReturnedNone)
            /\ UNCHANGED << loc, ldap_root_domain >>
       ELSE /\ AfterUpn(p, UpnTuple(username, Empty))
            /\ UNCHANGED ldap_root_domain
    /\ UNCHANGED << cfgv, dirv, storev, conns, log, resolved >>

-----------------------------------------------------------------------------
(* _fetch_root_domain *)

\* _fetch_root_domain returns root_domain to its caller: to the host, or to
\* _map_login_to_upn inside check_auth.
RootDomainReturn(p, root_domain) ==
    IF loc[p].op = "fetch_root_domain"
    THEN Finish(p, Returned(root_domain)) /\ UNCHANGED loc
    ELSE AfterUpn(p, UpnTuple(loc[p].username, root_domain))

\* A _fetch_root_domain that takes the "" of a failed discovery for no
\* cached value (`if self.ldap_root_domain:`) and discovers again.
FetchRootDomain_RetryAfterFailure(p) ==
    /\ Start
    /\ pc[p] = "idle"
    /\ ldap_active_directory
    /\ loc' = [loc EXCEPT ![p] = [NoLocals EXCEPT !.op = "fetch_root_domain"]]
    /\ IF Truthy(ldap_root_domain) THEN
            /\ Finish(p, Returned(ldap_root_domain))
            /\ UNCHANGED ldap_root_domain
       ELSE /\ ldap_root_domain' = Empty
            /\ IF ldap_mode # "search"
               THEN Finish(p, Returned(Empty))
               ELSE Goto(p, "root_bind")
    /\ UNCHANGED << cfgv, dirv, storev, conns, log, resolved >>

\* Lines 702-709, called on its own.
FetchRootDomain(p) ==
    /\ Start
    /\ pc[p] = "idle"
    /\ ldap_active_directory
    /\ loc' = [loc EXCEPT ![p] = [NoLocals EXCEPT !.op = "fetch_root_domain"]]
    /\ IF ldap_root_domain # NoneV THEN
            /\ Finish(p, Returned(ldap_root_domain))
            /\ UNCHANGED ldap_root_domain
       ELSE /\ ldap_root_domain' = Empty
            /\ IF ldap_mode # "search"
               THEN Finish(p, Returned(Empty))
               ELSE Goto(p, "root_bind")
    /\ UNCHANGED << cfgv, dirv, storev, conns, log, resolved >>

\* Lines 711-752: the bind, and the RootDSE read on the bound session.  An
\* LDAPException of the bind is caught by nobody.
FetchRootBind(p) ==
    /\ UNCHANGED attempts
    /\ pc[p] = "root_bind"
    /\ LET auth_type == IF ldap_bind_dn = NoDn THEN "ANONYMOUS" ELSE "SIMPLE"
           who == IF ldap_bind_dn = NoDn THEN "anonymous" ELSE "service"
       IN
       \E outcome \in BindOutcomes(ldap_bind_dn, ldap_bind_password, auth_type) :
         /\ Logged(p, Ev("bind", who, ldap_bind_dn, ldap_bind_password, outcome))
         /\ CASE outcome = "error" ->
                    /\ Finish(p, Raised("LDAPException"))
                    /\ UNCHANGED << loc, conns, ldap_root_domain >>
              [] outcome = "refused" ->
                    /\ RootDomainReturn(p, ldap_root_domain)
                    /\ UNCHANGED << conns, ldap_root_domain >>
              [] outcome = "ok" ->
                    /\ conns' = [conns EXCEPT ![p] = @ \cup {<< "root", "root" >>}]
                    /\ ldap_root_domain' =
                          IF root_dse # NoneV /\ root_dse # Empty
                          THEN RootDomainOf(root_dse)
                          ELSE ldap_root_domain
                    /\ Goto(p, "root_unbind")
                    /\ UNCHANGED loc
    /\ UNCHANGED << cfgv, dirv, storev, resolved >>

\* Lines 754-756.
FetchRootUnbind(p) ==
    /\ UNCHANGED attempts
    /\ pc[p] = "root_unbind"
    /\ conns' = [conns EXCEPT ![p] = @ \ {<< "root", "root" >>}]
    /\ Logged(p, Ev("unbind", "root", NoDn, Empty, "ok"))
    /\ RootDomainReturn(p, ldap_root_domain)
    /\ UNCHANGED << cfgv, ldap_root_domain, dirv, storev, resolved >>

-----------------------------------------------------------------------------
(* DirectoryConnector: _ldap_simple_bind and _ldap_authenticated_search *)

\* Entry points that both turn an LDAPException into a rejection.
LdapError_AlwaysReject(p) ==
    Finish(p, ReturnedNone)

\* An LDAPException reaches the entry point: check_auth catches it and
\* rejects (314-316), check_3pid_auth logs it and raises it again (393-395).
LdapError(p) ==
    Finish(p, IF loc[p].op = "check_auth" THEN ReturnedNone
              ELSE Raised("LDAPException"))

\* check_auth, lines 204-219: simple mode binds as uid=<value>,<base>.
SimpleBind(p) ==
    /\ UNCHANGED attempts
    /\ pc[p] = "simple_bind"
    /\ LET bind_dn == [rdn |-> loc[p].uid_value, ou |-> "base"] IN
       \E outcome \in BindOutcomes(bind_dn, loc[p].password, "SIMPLE") :
         /\ Logged(p, Ev("bind", "user", bind_dn, loc[p].password, outcome))
         /\ CASE outcome = "error" ->
                    /\ LdapError(p)
                    /\ UNCHANGED << loc, conns >>
              [] outcome = "refused" ->
                    /\ Finish(p, ReturnedNone)
                    /\ UNCHANGED << loc, conns >>
              [] outcome = "ok" ->
                    /\ conns' = [conns EXCEPT ![p] = @ \cup {<< "user", "first" >>}]
                    /\ loc' = [loc EXCEPT ![p].conn = << "user", "first" >>]
                    /\ Goto(p, "find_original")
    /\ UNCHANGED << cfgv, ldap_root_domain, dirv, storev, resolved >>

\* Callers of _ldap_authenticated_search that go on whatever result is.
SearchReturn_IgnoreResult(p, res, conn, response) ==
    CASE loc[p].phase = "first" ->
            /\ loc' = [loc EXCEPT ![p].conn = conn, ![p].response = response,
                                  ![p].search_ret = << res, conn, response >>]
            /\ Goto(p, "find_original")
      [] loc[p].phase = "second" ->
            /\ loc' = [loc EXCEPT ![p].conn = conn, ![p].response = response,
                                  ![p].search_ret = << res, conn, response >>]
            /\ IF response = "none" THEN Finish(p, Raised("TypeError"))
               ELSE Goto(p, "register_check")
      [] loc[p].phase = "3pid" ->
            /\ loc' = [loc EXCEPT ![p].conn = conn, ![p].response = response,
                                  ![p].search_ret = << res, conn, response >>]
            /\ Goto(p, "unbind_3pid")

\* _ldap_authenticated_search returns (result, conn, response), kept in
\* search_ret, and its caller goes on.
\*   check_auth, first call (222-231): rejection unless result.
\*   check_auth, second call (279-298): response["attributes"] is read
\*     whatever result is; on None that is a TypeError.
\*   check_3pid_auth (348-367): conn is unbound if there is one; rejection
\*     unless result.
SearchReturn(p, res, conn, response) ==
    CASE loc[p].phase = "first" ->
            /\ loc' = [loc EXCEPT ![p].conn = conn, ![p].response = response,
                                  ![p].search_ret = << res, conn, response >>]
            /\ IF res THEN Goto(p, "find_original") ELSE Finish(p, ReturnedNone)
      [] loc[p].phase = "second" ->
            /\ loc' = [loc EXCEPT ![p].conn = conn, ![p].response = response,
                                  ![p].search_ret = << res, conn, response >>]
            /\ IF response = "none" THEN Finish(p, Raised("TypeError"))
               ELSE Goto(p, "register_check")
      [] loc[p].phase = "3pid" ->
            /\ loc' = [loc EXCEPT ![p].conn = conn, ![p].response = response,
                                  ![p].search_ret = << res, conn, response >>]
            /\ IF conn # NoConn THEN Goto(p, "unbind_3pid")
               ELSE Finish(p, ReturnedNone)

\* Lines 839-852: the bind of the search: the service account, or anonymous.
SearchBind(p) ==
    /\ UNCHANGED attempts
    /\ pc[p] = "svc_bind"
    /\ LET auth_type == IF ldap_bind_dn = NoDn THEN "ANONYMOUS" ELSE "SIMPLE"
           who == IF ldap_bind_dn = NoDn THEN "anonymous" ELSE "service"
       IN
       \E outcome \in BindOutcomes(ldap_bind_dn, ldap_bind_password, auth_type) :
         /\ Logged(p, Ev("bind", who, ldap_bind_dn, ldap_bind_password, outcome))
         /\ CASE outcome = "error" ->
                    /\ LdapError(p)
                    /\ UNCHANGED << loc, conns >>
              [] outcome = "refused" ->
                    /\ SearchReturn(p, FALSE, NoConn, "none")
                    /\ UNCHANGED conns
              [] outcome = "ok" ->
                    /\ conns' = [conns EXCEPT ![p] = @ \cup {<< "search", loc[p].phase >>}]
                    /\ Goto(p, "search")
                    /\ UNCHANGED loc
    /\ UNCHANGED << cfgv, ldap_root_domain, dirv, storev, resolved >>

\* A search that takes the first of several entries instead of giving up.
Search_AnyMatch(p) ==
    /\ UNCHANGED attempts
    /\ pc[p] = "search"
    /\ LET key == IF loc[p].phase = "3pid" THEN "mail" ELSE "uid"
           value == IF loc[p].phase = "3pid" THEN loc[p].address ELSE loc[p].uid_value
       IN
       \E responses \in SearchResponses(key, value) :
          \/ /\ Logged(p, Ev("search", key, NoDn, Empty, "error"))
             /\ LdapError(p)
             /\ UNCHANGED loc
          \/ /\ Cardinality(responses) >= 1
             /\ \E e \in responses :
                  /\ Logged(p, Ev("search", key, DnOf(e), Empty,
                                  IF Cardinality(responses) = 1 THEN "one" ELSE "many"))
                  /\ loc' = [loc EXCEPT ![p].user_dn = DnOf(e), ![p].response = e.id]
             /\ Goto(p, "search_unbind")
          \/ /\ responses = {}
             /\ Logged(p, Ev("search", key, NoDn, Empty, "none"))
             /\ Goto(p, "search_abort")
             /\ UNCHANGED loc
    /\ UNCHANGED << cfgv, ldap_root_domain, dirv, storev, conns, resolved >>

\* Lines 857-893 and 905-914: the search and the count of its entries.
Search(p) ==
    /\ UNCHANGED attempts
    /\ pc[p] = "search"
    /\ LET key == IF loc[p].phase = "3pid" THEN "mail" ELSE "uid"
           value == IF loc[p].phase = "3pid" THEN loc[p].address ELSE loc[p].uid_value
       IN
       \E responses \in SearchResponses(key, value) :
          \/ /\ Logged(p, Ev("search", key, NoDn, Empty, "error"))
             /\ LdapError(p)
             /\ UNCHANGED loc
          \/ /\ Cardinality(responses) = 1
             /\ \E e \in responses :
                  /\ Logged(p, Ev("search", key, DnOf(e), Empty, "one"))
                  /\ loc' = [loc EXCEPT ![p].user_dn = DnOf(e), ![p].response = e.id]
             /\ Goto(p, "search_unbind")
          \/ /\ Cardinality(responses) # 1
             /\ Logged(p, Ev("search", key, NoDn, Empty,
                             IF responses = {} THEN "none" ELSE "many"))
             /\ Goto(p, "search_abort")
             /\ UNCHANGED loc
    /\ UNCHANGED << cfgv, ldap_root_domain, dirv, storev, conns, resolved >>

\* A search that binds as the entry found while its searching session is
\* still bound.
SearchUnbind_KeepSession(p) ==
    /\ UNCHANGED attempts
    /\ pc[p] = "search_unbind"
    /\ Goto(p, "rebind")
    /\ UNCHANGED << cfgv, ldap_root_domain, dirv, storev, loc, conns, log, resolved >>

\* Line 899: one entry: the searching session is unbound.
SearchUnbind(p) ==
    /\ UNCHANGED attempts
    /\ pc[p] = "search_unbind"
    /\ conns' = [conns EXCEPT ![p] = @ \ {<< "search", loc[p].phase >>}]
    /\ Logged(p, Ev("unbind", "search", NoDn, Empty, "ok"))
    /\ Goto(p, "rebind")
    /\ UNCHANGED << cfgv, ldap_root_domain, dirv, storev, loc, resolved >>

\* Lines 900-904: the bind as the entry found, with the caller's password.
SearchRebind(p) ==
    /\ UNCHANGED attempts
    /\ pc[p] = "rebind"
    /\ \E outcome \in BindOutcomes(loc[p].user_dn, loc[p].password, "SIMPLE") :
         /\ Logged(p, Ev("bind", "user", loc[p].user_dn, loc[p].password, outcome))
         /\ CASE outcome = "error" ->
                 /\ LdapError(p)
                 /\ UNCHANGED << loc, conns >>
           [] outcome = "refused" ->
                 /\ SearchReturn(p, FALSE, NoConn, loc[p].response)
                 /\ UNCHANGED conns
           [] outcome = "ok" ->
                 /\ conns' = [conns EXCEPT ![p] = @ \cup {<< "user", loc[p].phase >>}]
                 /\ SearchReturn(p, TRUE, << "user", loc[p].phase >>, loc[p].response)
    /\ UNCHANGED << cfgv, ldap_root_domain, dirv, storev, resolved >>

\* Lines 915-917: no entry or several: unbind, (False, None, None).
SearchAbort(p) ==
    /\ UNCHANGED attempts
    /\ pc[p] = "search_abort"
    /\ conns' = [conns EXCEPT ![p] = @ \ {<< "search", loc[p].phase >>}]
    /\ Logged(p, Ev("unbind", "search", NoDn, Empty, "ok"))
    /\ SearchReturn(p, FALSE, NoConn, "none")
    /\ UNCHANGED << cfgv, ldap_root_domain, dirv, storev, resolved >>

-----------------------------------------------------------------------------
(* RegistrationCoordinator: the account of an authenticated identity *)

\* ghost: a successful check_auth for directory identifier x returned account;
\* first and last are the template epochs of the first and the latest time.
Resolve(x, account) ==
    IF \E r \in resolved : r.x = x /\ r.account = account
    THEN { IF r.x = x /\ r.account = account
           THEN [r EXCEPT !.last = epoch] ELSE r : r \in resolved }
    ELSE resolved \cup {[x |-> x, account |-> account,
                         first |-> epoch, last |-> epoch]}

\* The entry point returns a user id.
FinishValue(p, user_id) ==
    /\ Finish(p, Returned(user_id))
    /\ resolved' = IF history /\ loc[p].op = "check_auth"
                   THEN Resolve(loc[p].uid_value, user_id)
                   ELSE resolved

\* A check_auth that goes to the account at the mapped id without asking
\* for the account recorded for the original localpart.
FindOriginal_MappedOnly(p) ==
    /\ UNCHANGED attempts
    /\ pc[p] = "find_original"
    /\ Logged(p, Ev("store", "find_by_original", NoDn, Empty, "ok"))
    /\ loc' = [loc EXCEPT ![p].mapped_localpart =
                             _apply_user_mapping(loc[p].localpart)]
    /\ Goto(p, "exists")
    /\ UNCHANGED << cfgv, ldap_root_domain, dirv, storev, conns, resolved >>

\* Lines 250-259: the mapped localpart; the account recorded for the original
\* localpart, if any, is returned as it is.
FindOriginal(p) ==
    /\ UNCHANGED attempts
    /\ pc[p] = "find_original"
    /\ Logged(p, Ev("store", "find_by_original", NoDn, Empty, "ok"))
    /\ \E existing_user_id \in _find_user_by_original_localpart(loc[p].localpart) :
         IF Truthy(existing_user_id)
         THEN /\ FinishValue(p, existing_user_id)
              /\ UNCHANGED loc
         ELSE /\ loc' = [loc EXCEPT ![p].mapped_localpart =
                                       _apply_user_mapping(loc[p].localpart)]
              /\ Goto(p, "exists")
              /\ UNCHANGED resolved
    /\ UNCHANGED << cfgv, ldap_root_domain, dirv, storev, conns >>

\* Lines 262-283: the account at the mapped id, if any; else the registration,
\* which search mode starts with a second authenticated search.
CheckExists(p) ==
    /\ UNCHANGED attempts
    /\ pc[p] = "exists"
    /\ Logged(p, Ev("store", "check_user_exists", NoDn, Empty, "ok"))
    /\ LET user_id == get_qualified_user_id(loc[p].mapped_localpart)
           canonical_user_id == check_user_exists(user_id)
       IN  IF Truthy(canonical_user_id)
           THEN /\ loc' = [loc EXCEPT ![p].user_id = canonical_user_id]
                /\ Goto(p, "found_unbind")
           ELSE IF ldap_mode = "search"
           THEN /\ loc' = [loc EXCEPT ![p].phase = "second",
                                      ![p].search_ret = << >>]
                /\ Goto(p, "svc_bind")
           ELSE /\ Goto(p, "register_check")
                /\ UNCHANGED loc
    /\ UNCHANGED << cfgv, ldap_root_domain, dirv, storev, conns, resolved >>

\* Lines 268-270.
FoundUnbind(p) ==
    /\ UNCHANGED attempts
    /\ pc[p] = "found_unbind"
    /\ conns' = [conns EXCEPT ![p] = @ \ {loc[p].conn}]
    /\ Logged(p, Ev("unbind", "user", NoDn, Empty, "ok"))
    /\ FinishValue(p, loc[p].user_id)
    /\ UNCHANGED << cfgv, ldap_root_domain, dirv, storev, loc >>

\* register_user, lines 411-425.  check_auth passes the lower-cased mapped and
\* original localparts (305-308); check_3pid_auth passes the localpart of the
\* entry, which is mapped here (389, 417-418).
RegisterCheck(p) ==
    /\ UNCHANGED attempts
    /\ pc[p] = "register_check"
    /\ Logged(p, Ev("store", "check_user_exists", NoDn, Empty, "ok"))
    /\ LET already_mapped == loc[p].op = "check_auth"
           original_localpart == IF already_mapped THEN Lower(loc[p].localpart)
                                 ELSE loc[p].localpart
           mapped_localpart == IF already_mapped THEN Lower(loc[p].mapped_localpart)
                               ELSE _apply_user_mapping(loc[p].localpart)
           user_id == get_qualified_user_id(mapped_localpart)
       IN  IF mapped_localpart = NoneV
           THEN /\ Finish(p, Raised("AttributeError"))
                /\ UNCHANGED << loc, resolved >>
           ELSE IF check_user_exists(user_id) # NoneV
           THEN /\ FinishValue(p, user_id)
                /\ UNCHANGED loc
           ELSE /\ loc' = [loc EXCEPT ![p].reg_localpart = mapped_localpart,
                                      ![p].original_localpart = original_localpart,
                                      ![p].user_id = user_id]
                /\ Goto(p, "register")
                /\ UNCHANGED resolved
    /\ UNCHANGED << cfgv, ldap_root_domain, dirv, storev, conns >>

\* A register_user that stores the original localpart whether the mapping
\* changed it or not.
Register_AlwaysStore(p) ==
    /\ UNCHANGED attempts
    /\ pc[p] = "register"
    /\ Logged(p, Ev("store", "register", NoDn, Empty, "ok"))
    /\ IF \/ check_user_exists(loc[p].user_id) # NoneV
          \/ Lower(loc[p].reg_localpart) # loc[p].reg_localpart
       THEN /\ Finish(p, Raised("SynapseError"))
            /\ UNCHANGED << accounts, resolved >>
       ELSE /\ accounts' = accounts \cup {loc[p].user_id}
            /\ IF Truthy(loc[p].original_localpart)
               THEN Goto(p, "store_check") /\ UNCHANGED resolved
               ELSE FinishValue(p, loc[p].user_id)
    /\ UNCHANGED << cfgv, ldap_root_domain, dirv, external_ids, loc, conns >>

\* Lines 428-449: account_handler.register, which refuses a user id that is
\* taken and a localpart that is not lower-case; then the original localpart
\* is stored if the mapping changed it.
Register(p) ==
    /\ UNCHANGED attempts
    /\ pc[p] = "register"
    /\ Logged(p, Ev("store", "register", NoDn, Empty, "ok"))
    /\ IF \/ check_user_exists(loc[p].user_id) # NoneV
          \/ Lower(loc[p].reg_localpart) # loc[p].reg_localpart
       THEN /\ Finish(p, Raised("SynapseError"))
            /\ UNCHANGED << accounts, resolved >>
       ELSE /\ accounts' = accounts \cup {loc[p].user_id}
            /\ IF /\ Truthy(loc[p].original_localpart)
                  /\ loc[p].original_localpart # loc[p].reg_localpart
               THEN Goto(p, "store_check") /\ UNCHANGED resolved
               ELSE FinishValue(p, loc[p].user_id)
    /\ UNCHANGED << cfgv, ldap_root_domain, dirv, external_ids, loc, conns >>

\* A register_user that returns what _store_original_localpart returned.
StoreReturn_StoreResult(p) ==
    Finish(p, ReturnedNone) /\ UNCHANGED resolved

\* _store_original_localpart returns None; register_user, which called it,
\* returns the user id (456).
StoreReturn(p) ==
    IF loc[p].op = "_store_original_localpart"
    THEN Finish(p, ReturnedNone) /\ UNCHANGED resolved
    ELSE FinishValue(p, loc[p].user_id)

\* _store_original_localpart(user_id, original_localpart) called by itself.
StoreCall(p, user_id, original_localpart) ==
    /\ Start
    /\ pc[p] = "idle"
    /\ loc' = [loc EXCEPT ![p] =
                 [NoLocals EXCEPT !.op = "_store_original_localpart",
                                  !.user_id = user_id,
                                  !.original_localpart = original_localpart]]
    /\ Goto(p, "store_check")
    /\ UNCHANGED << cfgv, ldap_root_domain, dirv, storev, conns, log, resolved >>

\* A persist that does not look at the rows the account has.
StoreCheck_NoLookup(p) ==
    /\ UNCHANGED attempts
    /\ pc[p] = "store_check"
    /\ Logged(p, Ev("store", "get_external_ids", NoDn, Empty, "ok"))
    /\ Goto(p, "store_record") /\ UNCHANGED resolved
    /\ UNCHANGED << cfgv, ldap_root_domain, dirv, storev, loc, conns >>

\* _store_original_localpart, lines 465-494: nothing is written for an
\* account that has an "ldap_original" row.
StoreCheck(p) ==
    /\ UNCHANGED attempts
    /\ pc[p] = "store_check"
    /\ Logged(p, Ev("store", "get_external_ids", NoDn, Empty, "ok"))
    /\ IF get_external_ids_by_user(loc[p].user_id) # {}
       THEN StoreReturn(p)
       ELSE Goto(p, "store_record") /\ UNCHANGED resolved
    /\ UNCHANGED << cfgv, ldap_root_domain, dirv, storev, loc, conns >>

\* Lines 497-505: record_user_external_id; the table holds an external id
\* once, and the error of a second row for it is caught and logged.
StoreRecord(p) ==
    /\ UNCHANGED attempts
    /\ pc[p] = "store_record"
    /\ Logged(p, Ev("store", "record_external_id", NoDn, Empty, "ok"))
    /\ external_ids' =
          IF \E r \in external_ids : r[1] = loc[p].original_localpart
          THEN external_ids
          ELSE external_ids \cup {<< loc[p].original_localpart, loc[p].user_id >>}
    /\ StoreReturn(p)
    /\ UNCHANGED << cfgv, ldap_root_domain, dirv, accounts, loc, conns >>

-----------------------------------------------------------------------------
(* check_3pid_auth *)

\* The values of the uid attribute in the entry a search for a mail
\* returned: the entry's uid; none, for an entry without the attribute; two,
\* for an entry with a second value.
UidValues(id) ==
    UNION { { << >>, << UidOf(e) >>, << UidOf(e), << "x" >> >> } :
              e \in {x \in Entries : x.id = id} }

\* A check_3pid_auth that searches for an address of any medium.
Check3pidAuth_AnyMedium(p, medium, address, password) ==
    /\ Start
    /\ pc[p] = "idle"
    /\ loc' = [loc EXCEPT ![p] =
                 [NoLocals EXCEPT !.op = "check_3pid_auth", !.medium = medium,
                                  !.address = address, !.password = password,
                                  !.phase = "3pid"]]
    /\ IF ldap_mode # "search"
       THEN Finish(p, ReturnedNone)
       ELSE Goto(p, "svc_bind")
    /\ UNCHANGED << cfgv, ldap_root_domain, dirv, storev, conns, log, resolved >>

\* Lines 331-352: search mode and the "email" medium only.
Check3pidAuth(p, medium, address, password) ==
    /\ Start
    /\ pc[p] = "idle"
    /\ loc' = [loc EXCEPT ![p] =
                 [NoLocals EXCEPT !.op = "check_3pid_auth", !.medium = medium,
                                  !.address = address, !.password = password,
                                  !.phase = "3pid"]]
    /\ IF ldap_mode # "search" \/ medium # "email"
       THEN Finish(p, ReturnedNone)
       ELSE Goto(p, "svc_bind")
    /\ UNCHANGED << cfgv, ldap_root_domain, dirv, storev, conns, log, resolved >>

\* Lines 363-389: the session is unbound, and the localpart is taken from the
\* entry: its one uid value, in an Active Directory cut at the "@".
Unbind3pid(p) ==
    /\ UNCHANGED attempts
    /\ pc[p] = "unbind_3pid"
    /\ conns' = [conns EXCEPT ![p] = @ \ {loc[p].conn}]
    /\ Logged(p, Ev("unbind", "user", NoDn, Empty, "ok"))
    /\ \E values \in UidValues(loc[p].response) :
         LET uid == IF Len(values) = 1 THEN values[1] ELSE NoneV
             login == RSplitLeft(Lower(uid), "@")
             domain == RSplitRight(Lower(uid), "@")
             localpart ==
                IF ldap_active_directory /\ Truthy(uid) /\ Contains(uid, "@")
                THEN IF /\ Truthy(ldap_default_domain)
                        /\ Lower(domain) = Lower(ldap_default_domain)
                     THEN login
                     ELSE login \o Slash \o domain
                ELSE uid
         IN  loc' = [loc EXCEPT ![p].localpart = localpart]
    /\ Goto(p, "register_check")
    /\ UNCHANGED << cfgv, ldap_root_domain, dirv, storev, resolved >>

-----------------------------------------------------------------------------
(* parse_config *)

\* The configuration dictionaries parse_config is given.  keys: uri, base and
\* attributes are there; attributes: it holds uid, name and mail; the other
\* fields say whether the key is there, mode and user_mapping what it holds
\* (user_mapping: absent, a list, a dictionary without localpart_template, a
\* template that is not a string, one without the placeholder, a good one).
ConfigDicts ==
    [ keys : BOOLEAN, attributes : BOOLEAN,
      mode : {"absent", "simple", "search"},
      bind_dn : BOOLEAN, bind_password : BOOLEAN, bind_password_file : BOOLEAN,
      active_directory : BOOLEAN, default_domain : BOOLEAN,
      user_mapping : {"absent", "list", "inert", "nonstr", "noplaceholder", "tpl"},
      validate_cert : BOOLEAN, tls_options : BOOLEAN ]

\* Lines 596-675: the _LdapConfig returned, or the exception raised.
parse_config(config) ==
    LET mode == IF config.bind_dn THEN "search"
                ELSE IF config.mode = "search" THEN "search" ELSE "simple"
        ldap_config ==
            [ mode |-> mode,
              bind_dn |-> IF config.bind_dn THEN ServiceDn ELSE NoDn,
              bind_password |-> IF config.bind_dn THEN ServicePassword ELSE NoneV,
              active_directory |-> config.active_directory,
              default_domain |->
                 IF config.active_directory /\ config.default_domain
                 THEN DirDomain ELSE NoneV,
              user_mapping |->
                 CASE config.user_mapping = "absent" -> NoMapping
                   [] config.user_mapping = "tpl" -> TemplateU
                   [] OTHER -> BadTemplate ]
    IN  IF ~config.keys THEN Raised("Exception")
        ELSE IF /\ config.bind_dn
                /\ ~config.bind_password /\ ~config.bind_password_file
        THEN Raised("ValueError")
        ELSE IF ~config.attributes THEN Raised("Exception")
        ELSE IF config.user_mapping \in {"list", "nonstr", "noplaceholder"}
        THEN Raised("ValueError")
        ELSE IF config.validate_cert /\ config.tls_options
        THEN Raised("Exception")
        ELSE Returned(ldap_config)

\* The homeserver loads the module's configuration.
ParseConfig(p, config) ==
    /\ Start
    /\ pc[p] = "idle"
    /\ loc' = [loc EXCEPT ![p] =
                 [NoLocals EXCEPT !.op = "parse_config", !.config = config]]
    /\ Finish(p, parse_config(config))
    /\ UNCHANGED << cfgv, ldap_root_domain, dirv, storev, conns, log, resolved >>

-----------------------------------------------------------------------------
(* The host and the environment *)

\* The host takes the outcome of the call; the attempt's state is dropped.
Return(p) ==
    /\ UNCHANGED attempts
    /\ pc[p] = "done"
    /\ pc' = [pc EXCEPT ![p] = "idle"]
    /\ loc' = [loc EXCEPT ![p] = NoLocals]
    /\ conns' = [conns EXCEPT ![p] = {}]
    /\ log' = [log EXCEPT ![p] = << >>]
    /\ result' = [result EXCEPT ![p] = Pending]
    /\ UNCHANGED << cfgv, ldap_root_domain, dirv, storev, resolved >>

\* __init__, lines 70-97: the homeserver is restarted with another
\* user_mapping; the new provider instance has computed no root domain.
SetUserMapping(m) ==
    /\ UNCHANGED attempts
    /\ \A p \in Procs : pc[p] \in {"idle", "off"}
    /\ epoch < MaxTemplateChanges
    /\ m # user_mapping
    /\ user_mapping' = m
    /\ epoch' = epoch + 1
    /\ ldap_root_domain' = NoneV
    /\ UNCHANGED << ldap_mode, ldap_bind_dn, ldap_active_directory,
                    ldap_default_domain, dirv, storev, pc, loc, conns, log,
                    result, resolved, history >>

-----------------------------------------------------------------------------
(* Specifications *)

\* parse_config (606-654) and __init__ (70-97): a bind_dn makes the mode
\* search; default_domain is read in Active Directory mode only.
InitConfig ==
    /\ ldap_mode \in {"simple", "search"}
    /\ ldap_bind_dn \in IF ldap_mode = "search" THEN {NoDn, ServiceDn} ELSE {NoDn}
    /\ ldap_active_directory \in BOOLEAN
    /\ ldap_default_domain \in
          IF ldap_active_directory THEN {NoneV, DirDomain} ELSE {NoneV}
    /\ user_mapping \in Mappings
    /\ ldap_root_domain = NoneV
    /\ epoch = 0

InitAttempts ==
    /\ root_dse \in IF ldap_active_directory /\ ldap_mode = "search"
                    THEN {NoneV, RootDomainNamingContext} ELSE {NoneV}
    /\ loc = [p \in Procs |-> NoLocals]
    /\ conns = [p \in Procs |-> {}]
    /\ log = [p \in Procs |-> << >>]
    /\ result = [p \in Procs |-> Pending]
    /\ resolved = {}
    /\ attempts = 0

\* A homeserver with no account yet.
InitState ==
    /\ InitAttempts
    /\ accounts = {}
    /\ external_ids = {}

\* One attempt at a time.
Init ==
    /\ InitConfig
    /\ InitState
    /\ history = FALSE
    /\ pc = [p \in Procs |-> IF p = 1 THEN "idle" ELSE "off"]

\* A step of an attempt, or the start of one.
AttemptStep ==
    \/ \E p \in Procs, u \in Usernames, pw \in Passwords : CheckAuth(p, u, pw)
    \/ \E p \in Procs, m \in Mediums, a \in Addresses, pw \in Passwords :
          Check3pidAuth(p, m, a, pw)
    \/ \E p \in Procs : FetchRootDomain(p)
    \/ \E p \in Procs : ReverseMapping(p)
    \/ \E p \in Procs : MapLoginToUpn(p)
    \/ \E p \in Procs : FetchRootBind(p)
    \/ \E p \in Procs : FetchRootUnbind(p)
    \/ \E p \in Procs : SimpleBind(p)
    \/ \E p \in Procs : SearchBind(p)
    \/ \E p \in Procs : Search(p)
    \/ \E p \in Procs : SearchUnbind(p)
    \/ \E p \in Procs : SearchRebind(p)
    \/ \E p \in Procs : SearchAbort(p)
    \/ \E p \in Procs : FindOriginal(p)
    \/ \E p \in Procs : CheckExists(p)
    \/ \E p \in Procs : FoundUnbind(p)
    \/ \E p \in Procs : RegisterCheck(p)
    \/ \E p \in Procs : Register(p)
    \/ \E p \in Procs : StoreCheck(p)
    \/ \E p \in Procs : StoreRecord(p)
    \/ \E p \in Procs : Unbind3pid(p)
    \/ \E p \in Procs : Return(p)

Next ==
    \/ AttemptStep
    \/ \E m \in Mappings : SetUserMapping(m)

Spec == Init /\ [][Next]_vars

\* The same, with the successful check_auth results kept in resolved.
InitHist ==
    /\ InitConfig
    /\ InitState
    /\ history = TRUE
    /\ pc = [p \in Procs |-> IF p = 1 THEN "idle" ELSE "off"]

SpecHist == InitHist /\ [][Next]_vars

\* Two attempts at a time under one configuration: the calls of two clients
\* interleave at every await.  Two configurations: simple mode with the
\* template, and search mode with a service account in an Active Directory.
InitConc ==
    /\ InitConfig
    /\ \/ /\ ldap_mode = "simple" /\ ~ldap_active_directory
          /\ user_mapping = TemplateU
       \/ /\ ldap_mode = "search" /\ ldap_bind_dn = ServiceDn
          /\ ldap_active_directory /\ ldap_default_domain = DirDomain
          /\ user_mapping = NoMapping
    /\ InitState
    /\ history = TRUE
    /\ pc = [p \in Procs |-> "idle"]

SpecConc == InitConc /\ [][AttemptStep]_vars

\* _map_login_to_upn by itself, one call at a time, in an Active Directory
\* whose default domain is not configured, or is in lower case, or has
\* upper-case letters; the names are those callers type and a DOMAIN\login
\* whose domain ends with the root domain.
UpperDomain == << "D", ".", "R" >>

UpnUsernames == Usernames \cup { << "r", "\\", "b" >> }

InitUpn ==
    /\ ldap_mode \in {"simple", "search"}
    /\ ldap_bind_dn \in IF ldap_mode = "search" THEN {NoDn, ServiceDn} ELSE {NoDn}
    /\ ldap_active_directory = TRUE
    /\ ldap_default_domain \in {NoneV, DirDomain, UpperDomain}
    /\ user_mapping = NoMapping
    /\ ldap_root_domain = NoneV
    /\ epoch = 0
    /\ InitState
    /\ history = FALSE
    /\ pc = [p \in Procs |-> IF p = 1 THEN "idle" ELSE "off"]

NextUpn ==
    \/ \E p \in Procs : \E username \in UpnUsernames :
          MapLoginToUpnCall(p, username)
    \/ \E p \in Procs : MapLoginToUpn(p)
    \/ \E p \in Procs : FetchRootBind(p)
    \/ \E p \in Procs : FetchRootUnbind(p)
    \/ \E p \in Procs : Return(p)

SpecUpn == InitUpn /\ [][NextUpn]_vars

\* A homeserver that has accounts already when the provider starts: none;
\* @b:h registered without a template; @ub:h registered for b under the
\* template "u{localpart}", with its row; both.
StoredStates ==
    LET b == << "@", "b", ":", "h" >>
        ub == << "@", "u", "b", ":", "h" >>
        row == << << "b" >>, ub >>
    IN  { [accounts |-> {}, external_ids |-> {}],
          [accounts |-> {b}, external_ids |-> {}],
          [accounts |-> {ub}, external_ids |-> {row}],
          [accounts |-> {b, ub}, external_ids |-> {row}] }

InitStored ==
    /\ InitConfig
    /\ InitAttempts
    /\ \E st \in StoredStates :
          accounts = st.accounts /\ external_ids = st.external_ids
    /\ history = FALSE
    /\ pc = [p \in Procs |-> IF p = 1 THEN "idle" ELSE "off"]

\* One attempt at a time, under one configuration, on such a homeserver.
SpecStored == InitStored /\ [][AttemptStep]_vars

\* _store_original_localpart by itself, one call at a time, for the user
\* ids and original localparts below.
StoreUserIds ==
    { << "@", "b", ":", "h" >>, << "@", "u", "b", ":", "h" >> }

StoreOriginals == { << "b" >>, << "B" >>, << "u", "b" >> }

InitStore ==
    /\ InitConfig
    /\ ldap_mode = "simple" /\ ~ldap_active_directory
    /\ user_mapping = TemplateU
    /\ InitState
    /\ history = FALSE
    /\ pc = [p \in Procs |-> IF p = 1 THEN "idle" ELSE "off"]

NextStore ==
    \/ \E p \in Procs : \E user_id \in StoreUserIds :
          \E original_localpart \in StoreOriginals :
             StoreCall(p, user_id, original_localpart)
    \/ \E p \in Procs : StoreCheck(p)
    \/ \E p \in Procs : StoreRecord(p)
    \/ \E p \in Procs : Return(p)

SpecStore == InitStore /\ [][NextStore]_vars

\* parse_config by itself, one call at a time, for every dictionary above.
InitParse ==
    /\ InitConfig
    /\ ldap_mode = "simple" /\ ~ldap_active_directory
    /\ user_mapping = NoMapping
    /\ InitState
    /\ history = FALSE
    /\ pc = [p \in Procs |-> IF p = 1 THEN "idle" ELSE "off"]

NextParse ==
    \/ \E p \in Procs :
          /\ pc[p] = "idle" /\ attempts < MaxAttempts
          /\ \E config \in ConfigDicts : ParseConfig(p, config)
    \/ \E p \in Procs : Return(p)

SpecParse == InitParse /\ [][NextParse]_vars


\* check_3pid_auth by itself, one call at a time, in search mode, on a
\* homeserver without accounts or with the account @unone:h.
ThreePidStores ==
    { [accounts |-> {}, external_ids |-> {}],
      [accounts |-> { << "@", "u", "n", "o", "n", "e", ":", "h" >> },
       external_ids |-> {}] }

Init3pid ==
    /\ InitConfig
    /\ ldap_mode = "search"
    /\ InitAttempts
    /\ \E st \in ThreePidStores :
          accounts = st.accounts /\ external_ids = st.external_ids
    /\ history = FALSE
    /\ pc = [p \in Procs |-> IF p = 1 THEN "idle" ELSE "off"]

Next3pid ==
    \/ \E p \in Procs, m \in Mediums, a \in Addresses, pw \in Passwords :
          Check3pidAuth(p, m, a, pw)
    \/ \E p \in Procs : SearchBind(p)
    \/ \E p \in Procs : Search(p)
    \/ \E p \in Procs : SearchUnbind(p)
    \/ \E p \in Procs : SearchRebind(p)
    \/ \E p \in Procs : SearchAbort(p)
    \/ \E p \in Procs : Unbind3pid(p)
    \/ \E p \in Procs : RegisterCheck(p)
    \/ \E p \in Procs : Register(p)
    \/ \E p \in Procs : StoreCheck(p)
    \/ \E p \in Procs : StoreRecord(p)
    \/ \E p \in Procs : Return(p)

Spec3pid == Init3pid /\ [][Next3pid]_vars

-----------------------------------------------------------------------------
(* What an attempt's log shows *)

Max(S) == CHOOSE m \in S : \A n \in S : n <= m

Searches(p) == {i \in DOMAIN log[p] : log[p][i].op = "search"}

UserBinds(p) ==
    {i \in DOMAIN log[p] : log[p][i].op = "bind" /\ log[p][i].who = "user"}

Answers(p) == {i \in DOMAIN log[p] : log[p][i].op \in {"bind", "search"}}

LastSearch(p) == log[p][Max(Searches(p))]

LastAnswer(p) == log[p][Max(Answers(p))]

SearchReturned(p) == loc[p].search_ret # << >>

-----------------------------------------------------------------------------
(* Properties *)

\* C1: a check_auth call with an empty password is rejected at once, in
\* every configuration: the result is None, no directory operation and no
\* store lookup has been made, no session is open.
C1_EmptyPasswordRejected ==
    \A p \in Procs :
        (loc[p].op = "check_auth" /\ loc[p].password = Empty)
            => /\ pc[p] = "done"
               /\ result[p] = ReturnedNone
               /\ log[p] = << >>
               /\ conns[p] = {}

\* A check_auth call with an empty password has returned, with search mode
\* and Active Directory configured.
C1_Witness ==
    \E p \in Procs :
        /\ loc[p].op = "check_auth" /\ loc[p].password = Empty
        /\ pc[p] = "done"
        /\ ldap_mode = "search" /\ ldap_active_directory

\* C2: a check_3pid_auth call with an empty password makes no directory
\* operation and its result is rejection.
C2_Empty3pidPasswordRejected ==
    \A p \in Procs :
        (loc[p].op = "check_3pid_auth" /\ loc[p].password = Empty)
            => /\ \A i \in DOMAIN log[p] : log[p][i].op \notin DirectoryOps
               /\ pc[p] = "done" => result[p] = ReturnedNone

\* C3: when an entry point has returned, every directory session the call
\* opened has been unbound.
C3_SessionsReleased ==
    \A p \in Procs : pc[p] = "done" => conns[p] = {}

\* C4: a check_auth call in which a directory operation failed with an LDAP
\* error ends in rejection; the error does not reach the caller.
C4_LdapErrorsRejected ==
    \A p \in Procs :
        ( /\ pc[p] = "done" /\ loc[p].op = "check_auth"
          /\ \E i \in DOMAIN log[p] : log[p][i].out = "error" )
            => result[p] = ReturnedNone

\* C5: a call in which a bind was refused or a search found no entry or
\* several does not end in an exception.
C5_RefusalsNeverRaise ==
    \A p \in Procs :
        ( /\ pc[p] = "done"
          /\ \E i \in DOMAIN log[p] : log[p][i].out \in {"refused", "none", "many"} )
            => result[p].kind # "raise"

\* C6: _ldap_authenticated_search returns success only after a search that
\* found exactly one entry and a bind as that entry that was accepted; after
\* a search that found no entry or several, no bind with the caller's
\* password follows and the return is (False, None, None).
C6_SearchExactlyOne ==
    \A p \in Procs :
        /\ \A i \in Searches(p) :
              log[p][i].out \in {"none", "many"}
                 => \A j \in UserBinds(p) : j < i
        /\ SearchReturned(p) =>
              /\ loc[p].search_ret[1] =>
                    /\ Searches(p) # {}
                    /\ LastSearch(p).out = "one"
                    /\ LastAnswer(p).op = "bind"
                    /\ LastAnswer(p).who = "user"
                    /\ LastAnswer(p).dn = LastSearch(p).dn
                    /\ LastAnswer(p).out = "ok"
              /\ (Searches(p) # {} /\ LastSearch(p).out \in {"none", "many"})
                    => loc[p].search_ret = << FALSE, NoConn, "none" >>

\* A search found several entries and _ldap_authenticated_search returned
\* (False, None, None).
C6_Witness ==
    \E p \in Procs :
        /\ Searches(p) # {}
        /\ LastSearch(p).out = "many"
        /\ loc[p].search_ret = << FALSE, NoConn, "none" >>

\* C7: in search mode, the searching session is unbound right after a search
\* that found exactly one entry and is not bound when the bind as that entry
\* is made; that bind carries the caller's password and the DN of the entry
\* found; the session returned on success is the one bound as the entry.
C7_RebindAfterUnbind ==
    \A p \in Procs :
        ldap_mode = "search" =>
          /\ \A i \in Searches(p) :
                (log[p][i].out = "one" /\ i < Len(log[p]))
                   => log[p][i + 1] = Ev("unbind", "search", NoDn, Empty, "ok")
          /\ \A i \in UserBinds(p) :
                /\ i >= 3
                /\ log[p][i - 1] = Ev("unbind", "search", NoDn, Empty, "ok")
                /\ log[p][i - 2].op = "search"
                /\ log[p][i - 2].out = "one"
                /\ log[p][i].dn = log[p][i - 2].dn
                /\ log[p][i].pw = loc[p].password
          /\ pc[p] = "rebind" => << "search", loc[p].phase >> \notin conns[p]
          /\ (SearchReturned(p) /\ loc[p].search_ret[1])
                => loc[p].search_ret[2] = << "user", loc[p].phase >>

\* _ldap_authenticated_search has returned success after a bind as the one
\* entry found.
C7_Witness ==
    \E p \in Procs :
        /\ ldap_mode = "search"
        /\ UserBinds(p) # {}
        /\ SearchReturned(p)
        /\ loc[p].search_ret[1]
        /\ loc[p].search_ret[2] \in conns[p]

\* C8: a directory identity that was resolved to an account under one
\* mapping template is resolved to the same account under every later one.
C8_SameAccountAcrossTemplates ==
    \A r1, r2 \in resolved :
        (r1.x = r2.x /\ r1.first < r2.last) => r1.account = r2.account

\* C9: with attempts interleaved, no attempt ends in the registry's
\* user-id-taken error and one directory identity is resolved to one
\* account.
C9_ConcurrentFirstLogins ==
    /\ \A p \in Procs :
          pc[p] = "done" => result[p] # Raised("SynapseError")
    /\ \A r1, r2 \in resolved : r1.x = r2.x => r1.account = r2.account

\* The localparts the mapper is asked about.
Localparts ==
    {<< "b" >>, << "B" >>, << "u", "b" >>} \cup {r[1] : r \in external_ids}

\* C10: with a template configured: when a check_auth for the original
\* localpart x has returned after a mapped registration that recorded x,
\* reverse(apply(x)) is x; and for every localpart x, while the account of
\* apply(x) has no row, reverse(apply(x)) is apply(x).
C10_ReverseOfApply ==
    user_mapping.kind # "none" =>
        /\ \A p \in Procs :
              ( /\ pc[p] = "done" /\ loc[p].op = "check_auth"
                /\ result[p].kind = "value"
                /\ \E i \in DOMAIN log[p] : log[p][i].who = "record_external_id" )
                  => _reverse_user_mapping(_apply_user_mapping(loc[p].localpart))
                        = {loc[p].localpart}
        /\ \A x \in Localparts :
              LET mapped == _apply_user_mapping(x)
                  user_id == get_qualified_user_id(mapped)
              IN  get_external_ids_by_user(user_id) = {}
                     => _reverse_user_mapping(mapped) = {mapped}

C13_DiscoveryAtMostOnce ==
    [][ \A p \in Procs :
          /\ (pc'[p] = "root_bind" /\ pc[p] # "root_bind")
                => ldap_root_domain = NoneV
          /\ ldap_root_domain # NoneV
                => (ldap_root_domain' # NoneV \/ epoch' # epoch)
          /\ ( /\ ldap_root_domain # NoneV
               /\ pc[p] = "idle" /\ loc'[p].op = "fetch_root_domain" )
                => /\ pc'[p] = "done"
                   /\ result'[p] = Returned(ldap_root_domain)
                   /\ ldap_root_domain' = ldap_root_domain
                   /\ log'[p] = << >>
                   /\ conns'[p] = {} ]_vars

\* In search mode a _fetch_root_domain call has returned the domain an
\* earlier discovery derived, without any directory operation.
C13_Witness ==
    \E p \in Procs :
        /\ pc[p] = "done"
        /\ loc[p].op = "fetch_root_domain"
        /\ ldap_mode = "search"
        /\ log[p] = << >>
        /\ Truthy(ldap_root_domain)
        /\ result[p] = Returned(ldap_root_domain)

\* C14: concurrent _fetch_root_domain calls return one and the same value,
\* and concurrent logins of one DOMAIN\login name derive the same uid value
\* and localpart.
C14_ConcurrentDiscoveryOneValue ==
    \A p, q \in Procs :
        /\ ( /\ pc[p] = "done" /\ pc[q] = "done"
             /\ loc[p].op = "fetch_root_domain" /\ loc[q].op = "fetch_root_domain"
             /\ result[p].kind = "value" /\ result[q].kind = "value" )
              => result[p] = result[q]
        /\ ( /\ loc[p].op = "check_auth" /\ loc[q].op = "check_auth"
             /\ loc[p].username = loc[q].username
             /\ Contains(loc[p].username, "\\")
             /\ Contains(loc[p].uid_value, "@")
             /\ Contains(loc[q].uid_value, "@") )
              => /\ loc[p].uid_value = loc[q].uid_value
                 /\ loc[p].localpart = loc[q].localpart

\* The account check_auth would find at the mapped id of its localpart.
MappedAccount(p) ==
    check_user_exists(get_qualified_user_id(_apply_user_mapping(loc[p].localpart)))

UpnReturned(p) == loc[p].op = "_map_login_to_upn" /\ loc[p].upn # << >>

\* C15: the localpart _map_login_to_upn returns is the login alone when the
\* resolved domain is the default domain, compared without regard to case,
\* and login "/" domain otherwise.
C15_LocalpartByDefaultDomain ==
    \A p \in Procs :
        UpnReturned(p) =>
            LET login == loc[p].upn[1]
                domain == loc[p].upn[2]
                localpart == loc[p].upn[3]
            IN  IF /\ Truthy(ldap_default_domain)
                   /\ Lower(domain) = Lower(ldap_default_domain)
                THEN localpart = login
                ELSE localpart = login \o Slash \o domain

\* C16: for DOMAIN\login the returned login and domain are the two sides of
\* the lower-cased name, the domain followed by "." and the root domain
\* exactly when a root domain is resolved and the domain does not end with
\* it; for login/domain they are the two sides of the lower-cased name, and
\* the call makes no directory operation.
C16_DomainOfQualifiedLogin ==
    \A p \in Procs :
        UpnReturned(p) =>
            LET username == loc[p].username
                lowered == Lower(username)
                login == loc[p].upn[1]
                domain == loc[p].upn[2]
            IN  /\ Contains(username, "\\") =>
                      LET given == RSplitLeft(lowered, "\\") IN
                      /\ login = RSplitRight(lowered, "\\")
                      /\ domain =
                            IF /\ Truthy(ldap_root_domain)
                               /\ ~EndsWith(given, ldap_root_domain)
                            THEN given \o << "." >> \o ldap_root_domain
                            ELSE given
                /\ (~Contains(username, "\\") /\ Contains(username, "/")) =>
                      /\ login = RSplitLeft(lowered, "/")
                      /\ domain = RSplitRight(lowered, "/")
                      /\ log[p] = << >>
                      /\ conns[p] = {}

\* A DOMAIN\login call has returned with the discovered root domain
\* appended to the domain.
C16_Witness ==
    \E p \in Procs :
        /\ UpnReturned(p)
        /\ Contains(loc[p].username, "\\")
        /\ Truthy(ldap_root_domain)
        /\ log[p] # << >>
        /\ loc[p].upn[2] =
              RSplitLeft(Lower(loc[p].username), "\\") \o << "." >> \o ldap_root_domain

\* A check_auth whose name, in an Active Directory without default domain,
\* has neither separator.
Unresolvable(p) ==
    /\ loc[p].op = "check_auth"
    /\ ldap_active_directory
    /\ ~Truthy(ldap_default_domain)
    /\ ~Contains(loc[p].username, "\\")
    /\ ~Contains(loc[p].username, "/")

\* C17: in an Active Directory without default domain a check_auth for a
\* name with neither separator has, once _map_login_to_upn was called,
\* returned None, with no directory operation and no session.
C17_UnresolvableLoginRejected ==
    \A p \in Procs :
        (Unresolvable(p) /\ pc[p] \notin {"reverse", "upn"})
            => /\ pc[p] = "done"
               /\ result[p] = ReturnedNone
               /\ \A i \in DOMAIN log[p] : log[p][i].op \notin DirectoryOps
               /\ conns[p] = {}

\* Such a check_auth, with a password, has gone through _map_login_to_upn
\* and returned.
C17_Witness ==
    \E p \in Procs :
        /\ Unresolvable(p)
        /\ loc[p].password # Empty
        /\ loc[p].phase = "first"
        /\ pc[p] = "done"

\* C18: a check_3pid_auth outside search mode or for a medium other than
\* "email" has returned None with no directory operation and no session;
\* so a check_3pid_auth with a directory operation is one in search mode for
\* an "email".
C18_OnlyEmailInSearchMode ==
    \A p \in Procs :
        loc[p].op = "check_3pid_auth" =>
            /\ (ldap_mode # "search" \/ loc[p].medium # "email")
                  => /\ pc[p] = "done"
                     /\ result[p] = ReturnedNone
                     /\ log[p] = << >>
                     /\ conns[p] = {}
            /\ (\E i \in DOMAIN log[p] : log[p][i].op \in DirectoryOps)
                  => (ldap_mode = "search" /\ loc[p].medium = "email")

\* In search mode a check_3pid_auth for a "msisdn" has returned.
C18_Witness ==
    \E p \in Procs :
        /\ loc[p].op = "check_3pid_auth"
        /\ ldap_mode = "search"
        /\ loc[p].medium = "msisdn"
        /\ pc[p] = "done"

\* C19: a check_3pid_auth in which a bind or the search raised an
\* LDAPException has ended by raising it: it returns neither None nor a
\* user id.
C19_3pidErrorsPropagate ==
    \A p \in Procs :
        ( /\ loc[p].op = "check_3pid_auth"
          /\ \E i \in DOMAIN log[p] : log[p][i].out = "error" )
            => /\ pc[p] = "done"
               /\ result[p] = Raised("LDAPException")

\* A check_3pid_auth has ended in the LDAPException of the bind as the
\* entry found.
C19_Witness ==
    \E p \in Procs :
        /\ loc[p].op = "check_3pid_auth"
        /\ log[p] # << >>
        /\ log[p][Len(log[p])] =
              Ev("bind", "user", loc[p].user_dn, loc[p].password, "error")
        /\ result[p] = Raised("LDAPException")

\* A check_auth attempt has met one of the reasons to reject: the bind with
\* the caller's password was refused (wrong password, or no such entry), or
\* a search found no entry or several.
Rejecting(p) ==
    /\ loc[p].op = "check_auth"
    /\ \E i \in DOMAIN log[p] :
          \/ log[p][i].op = "bind" /\ log[p][i].who = "user"
                /\ log[p][i].out = "refused"
          \/ log[p][i].op = "search" /\ log[p][i].out \in {"none", "many"}

\* C20: every check_auth that has ended after a reason to reject, or for an
\* unresolvable Active Directory login, whether a local account exists or
\* not, shows the caller the same: None, and no write to the registry or
\* the identity records.
C20_RejectionsAlike ==
    \A p \in Procs :
        (pc[p] = "done" /\ (Rejecting(p) \/ Unresolvable(p)))
            => /\ result[p] = ReturnedNone
               /\ \A i \in DOMAIN log[p] :
                     log[p][i].who \notin {"register", "record_external_id"}

\* The directory operations an attempt has made, in their order.
DirectoryLog(p) == SelectSeq(log[p], LAMBDA e : e.op \in DirectoryOps)

ServerDomains == { << "h" >>, << "h", ":", "1" >> }

\* C22: a check_auth call given "@" u ":" d does to the attempt, the stores
\* and the provider exactly what the call given u does, so that every later
\* step (reverse lookup, directory operations, result, registration) is the
\* same; and no part of d is in the uid value or in a DN sent to the
\* directory.
C22_QualifiedAsBare ==
    /\ [][ \A p \in Procs :
             \A u \in {x \in Usernames : ~StartsWith(x, At)} :
               \A d \in ServerDomains :
                 ( /\ pc[p] = "idle"
                   /\ loc'[p].op = "check_auth"
                   /\ loc'[p].typed = At \o u \o << ":" >> \o d )
                     => /\ loc'[p] =
                             [CheckAuthLocals(u, loc'[p].password)
                                 EXCEPT !.typed = loc'[p].typed]
                        /\ pc'[p] = IF loc'[p].password = Empty
                                    THEN "done" ELSE "reverse"
                        /\ result'[p] = IF loc'[p].password = Empty
                                        THEN ReturnedNone ELSE result[p]
                        /\ UNCHANGED << cfgv, ldap_root_domain, dirv, storev,
                                        conns, log, resolved >> ]_vars
    /\ [] \A p \in Procs :
            loc[p].op = "check_auth" =>
               /\ ~Contains(loc[p].uid_value, ":")
               /\ ~Contains(loc[p].uid_value, "h")
               /\ \A i \in DOMAIN log[p] :
                     ~Contains(log[p][i].dn.rdn, ":")
                        /\ ~Contains(log[p][i].dn.rdn, "h")

\* A check_auth given "@b:h:1" has started and goes on with the name "b".
C22_Witness ==
    \E p \in Procs :
        /\ pc[p] = "reverse"
        /\ loc[p].typed = << "@", "b", ":", "h", ":", "1" >>
        /\ loc[p].username = << "b" >>

\* C23: a configuration parse_config accepts with the mode search has a
\* bind_dn and a bind_password, and a dictionary that selects search mode
\* without bind_dn, or gives bind_dn with neither bind_password nor
\* bind_password_file, is refused.
C23_SearchNeedsBindIdentity ==
    \A p \in Procs :
        (loc[p].op = "parse_config" /\ pc[p] = "done") =>
            LET config == loc[p].config IN
            /\ (result[p].kind = "value" /\ result[p].val.mode = "search")
                  => /\ result[p].val.bind_dn # NoDn
                     /\ result[p].val.bind_password # NoneV
            /\ ( \/ config.mode = "search" /\ ~config.bind_dn
                 \/ /\ config.bind_dn
                    /\ ~config.bind_password /\ ~config.bind_password_file )
                  => result[p].kind = "raise"

\* C24: within one check_auth or check_3pid_auth attempt, no bind and no
\* search follows a bind that was refused, a search that found no entry or
\* several, or a directory error.
C24_NoRetries ==
    \A p \in Procs :
        loc[p].op \in {"check_auth", "check_3pid_auth"} =>
            \A i \in Answers(p) :
                log[p][i].out \in {"refused", "none", "many", "error"}
                    => \A j \in Answers(p) : j <= i

\* C25: the external id of every "ldap_original" row differs from the
\* localpart of the row's account; a registration whose original and mapped
\* localparts are equal returns without writing a row, and no row is written
\* while no template is configured.
C25_RecordOnlyWhenMapped ==
    /\ [] \A r \in external_ids : get_qualified_user_id(r[1]) # r[2]
    /\ [][ /\ \A p \in Procs :
                ( /\ pc[p] = "register" /\ pc'[p] # "register"
                  /\ loc[p].original_localpart = loc[p].reg_localpart )
                    => /\ pc'[p] = "done"
                       /\ external_ids' = external_ids
           /\ user_mapping.kind # "tpl" => external_ids' = external_ids ]_vars

\* With a dictionary without template configured, a check_auth has
\* registered an account and returned it, and no row was written.
C25_Witness ==
    \E p \in Procs :
        /\ user_mapping.kind = "inert"
        /\ loc[p].op = "check_auth"
        /\ pc[p] = "done"
        /\ result[p].kind = "value"
        /\ \E i \in DOMAIN log[p] : log[p][i].who = "register"
        /\ \A i \in DOMAIN log[p] : log[p][i].who # "record_external_id"

\* The binds of an attempt that the directory accepted as the user's own
\* entry with the caller's password: as uid=<uid value>,<base> in simple
\* mode, as the entry of the latest search, which found one, in search mode.
OwnBinds(p) ==
    { i \in UserBinds(p) :
        /\ log[p][i].out = "ok"
        /\ log[p][i].pw = loc[p].password
        /\ IF ldap_mode = "simple"
           THEN log[p][i].dn = [rdn |-> loc[p].uid_value, ou |-> "base"]
           ELSE /\ {j \in Searches(p) : j < i} # {}
                /\ LET j == Max({k \in Searches(p) : k < i})
                   IN  log[p][j].out = "one" /\ log[p][j].dn = log[p][i].dn }

\* C26: a check_auth or check_3pid_auth that has returned an account id has
\* had, earlier in the attempt, a bind accepted as the user's own entry with
\* the caller's password; so has every attempt before it asks the stores
\* for the account or registers one.
C26_AccountOnlyAfterOwnBind ==
    \A p \in Procs :
        loc[p].op \in {"check_auth", "check_3pid_auth"} =>
            /\ (pc[p] = "done" /\ result[p].kind = "value") => OwnBinds(p) # {}
            /\ \A k \in DOMAIN log[p] :
                  ( /\ log[p][k].op = "store"
                    /\ log[p][k].who # "get_original" )
                      => \E i \in OwnBinds(p) : i < k

\* In search mode a check_3pid_auth has returned an account id.
C26_Witness ==
    \E p \in Procs :
        /\ loc[p].op = "check_3pid_auth"
        /\ ldap_bind_dn = ServiceDn
        /\ pc[p] = "done"
        /\ result[p].kind = "value"
        /\ \E i \in DOMAIN log[p] : log[p][i].who = "register"

\* C27: two directory identifiers that differ (the directory compares them
\* without regard to case) are never resolved to one account by successful
\* check_auth attempts, whatever templates were configured in between.
C27_AccountSeparation ==
    \A r1, r2 \in resolved :
        r1.account = r2.account => Lower(r1.x) = Lower(r2.x)

\* The writes to the registry and the identity records in an attempt's log.
Writes(p) ==
    {i \in DOMAIN log[p] : log[p][i].who \in {"register", "record_external_id"}}

\* C28: every change of the account registry or of the identity records is
\* the register or record step of an attempt, kept in its log; and a
\* check_auth or check_3pid_auth that has returned None has made no such
\* step: with one attempt at a time the stores are as before the call.
C28_RejectionWritesNothing ==
    /\ [][ (accounts' # accounts \/ external_ids' # external_ids)
             => \E p \in Procs :
                   /\ pc[p] \in {"register", "store_record"}
                   /\ Len(log'[p]) = Len(log[p]) + 1
                   /\ Len(log'[p]) \in Writes(p)' ]_vars
    /\ [] \A p \in Procs :
            ( /\ loc[p].op \in {"check_auth", "check_3pid_auth"}
              /\ pc[p] = "done" /\ result[p] = ReturnedNone )
                => Writes(p) = {}

\* With an account registered earlier, a check_auth has been rejected after
\* the bind with the caller's password was refused.
C28_Witness ==
    \E p \in Procs :
        /\ loc[p].op = "check_auth"
        /\ pc[p] = "done" /\ result[p] = ReturnedNone
        /\ accounts # {}
        /\ \E i \in UserBinds(p) : log[p][i].out = "refused"

\* The uid value of the entry a check_3pid_auth found by its mail.
FoundUid(p) ==
    UidOf(CHOOSE e \in Entries : e.id = loc[p].response)

\* C29: a check_3pid_auth that has returned an account for the entry with
\* uid x returns the account every successful check_auth for x returned
\* before it, under this template or an earlier one.
C29_EntryPointsAgree ==
    \A p \in Procs :
        ( /\ loc[p].op = "check_3pid_auth"
          /\ pc[p] = "done" /\ result[p].kind = "value" )
            => \A r \in resolved :
                  Lower(r.x) = Lower(FoundUid(p)) => r.account = result[p].val

\* C30: a check_3pid_auth whose entry has no uid value or several, so that
\* its localpart is None, registers no account and does not end by
\* returning one.
C30_NoAccountFromNone ==
    \A p \in Procs :
        (loc[p].op = "check_3pid_auth" /\ loc[p].localpart = NoneV)
            => /\ pc[p] \notin {"store_check", "store_record"}
               /\ Writes(p) = {} \/ result[p] = Raised("SynapseError")
               /\ pc[p] = "done" => result[p].kind # "value"

\* The "ldap_original" rows that tie the name a check_auth was given to an
\* account: the name is the account's (mapped) localpart.
Associations(p) ==
    { r \in external_ids :
        /\ r[2] = get_qualified_user_id(loc[p].username)
        /\ r[2] \in accounts }

\* The uid values a check_auth given x asks the directory for: x taken back
\* through the rows, and in an Active Directory its login@domain.
UidGiven(x) ==
    IF ldap_active_directory
    THEN LET t == UpnTuple(x, Empty) IN { t.login \o At \o t.domain }
    ELSE _reverse_user_mapping(x)

\* check_auth has the identity it asks the directory for: lines 183-198 are
\* behind it.
Identified(p) ==
    /\ loc[p].op = "check_auth"
    /\ loc[p].phase # "none"
    /\ ldap_active_directory => loc[p].upn # << >>

\* C31: with a template configured and a row (x, A) for the account A whose
\* localpart y a check_auth was given, the uid value the attempt binds or
\* searches with is the one of a call given x, with or without Active
\* Directory, and an account it returns is A.
C31_ReversedNameQueried ==
    \A p \in Procs :
        (user_mapping.kind = "tpl" /\ Identified(p)) =>
            \A r \in Associations(p) :
                /\ loc[p].uid_value \in UidGiven(r[1])
                /\ (pc[p] = "done" /\ result[p].kind = "value")
                      => result[p].val = r[2]

====
